---- MODULE Spec2Model ----
(***************************************************************************)
(* Model of the Auth component (src/src/components/Auth/Auth.js).          *)
(*                                                                         *)
(* The component runs on a single-threaded event loop.  A handler runs     *)
(* synchronously up to its first await; the awaited provider call is then  *)
(* in flight (inflight) and the event loop is free for other events.  When *)
(* a provider call settles, the continuation of the handler runs to        *)
(* completion; its statements are modelled one by one (running.pc) so that *)
(* the order of the writes inside a continuation can be observed.  No      *)
(* other event is dispatched while a continuation runs.                    *)
(*                                                                         *)
(* Strings that the code inspects (the three form fields) are sequences of *)
(* one-character strings.  Tokens are opaque and are plain TLA+ strings.   *)
(***************************************************************************)
EXTENDS Naturals, Integers, Sequences, FiniteSets, Bags, TLC

\* ---------------------------------------------------------------- bounds
MaxInflight == 2      \* provider calls that may be in flight at once
MaxEmailLen == 5      \* longest e-mail string given to validateForm
MaxPassLen  == 7      \* longest password string given to validateForm

\* ------------------------------------------------------------ vocabulary
Null   == "null"                 \* JavaScript null (store token)
Tokens == {"T1", "T2"}           \* access tokens the provider may issue

Chars    == {"a", "@", ".", " "} \* a letter, the two separators, a blank
PassChar == "p"

E_empty == << >>
E_valid == <<"a", "@", "a", ".", "a">>
P_empty == << >>
P_ok    == <<"p", "p", "p", "p", "p", "p">>
N_empty == << >>
N_some  == <<"a">>

\* values typed into the form while requests are in flight: the e-mail and
\* the name are filled in once, the password can be filled in and cleared
\* again, so that the form can turn valid and invalid again in either mode
Emails    == {E_valid}
Passwords == {P_empty, P_ok}
Names     == {N_some}

RECURSIVE StringsUpTo(_, _)
StringsUpTo(alphabet, n) ==
  IF n = 0 THEN {<< >>}
  ELSE LET shorter == StringsUpTo(alphabet, n - 1)
       IN  shorter \cup {Append(s, c) : s \in {t \in shorter : Len(t) = n - 1},
                                        c \in alphabet}

\* inputs of the exhaustive validation runs
AllEmails    == StringsUpTo(Chars, MaxEmailLen)
AllPasswords == StringsUpTo({PassChar}, MaxPassLen)
AllNames     == {N_empty, N_some}

VARIABLES
  authData,      \* useState: {name, email, password}
  formErrors,    \* useState: field -> message
  isLogin,       \* store: state.auth.isLogin
  idToken,       \* store: token published by setIdToken
  loginStatus,   \* store: status refreshed by setLoginStatus
  localStorage,  \* window.localStorage, key -> string
  route,         \* router location
  accounts,      \* provider side: e-mails for which an account was created
  inflight,      \* bag of provider calls that have not settled yet
  running,       \* the continuation that is executing, or Idle
  lastLog,       \* prefix of the last console.error line
  uncaught,      \* an error escaped every handler
  toggleSeen     \* isLogin as read by the latest consecutive toggleAuthMode calls

vars == << authData, formErrors, isLogin, idToken, loginStatus, localStorage,
           route, accounts, inflight, running, lastLog, uncaught, toggleSeen >>

store   == << isLogin, idToken, loginStatus >>

\* ---------------------------------------------------------- localStorage
NoItems == [k \in {} |-> ""]

setItem(st, key, value) ==
  [k \in (DOMAIN st) \cup {key} |-> IF k = key THEN value ELSE st[k]]

removeItem(st, key) ==
  [k \in (DOMAIN st) \ {key} |-> st[k]]

hasItem(st, key) == key \in DOMAIN st

\* ------------------------------------------------------------ authSlice
setIdTokenReducer(tok) == tok

setIsLoginReducer(flag) == flag

setLoginStatusReducer(tok) == tok # Null

\* ----------------------------------------------------------- validateForm
NonSpace(c) == c # " "

EmailPattern == <<"S+", "@", "S+", ".", "S+">>

RECURSIVE MatchAt(_, _, _)
MatchAt(s, i, k) ==
  IF k > Len(EmailPattern) THEN TRUE
  ELSE IF i > Len(s) THEN FALSE
  ELSE IF EmailPattern[k] = "S+"
       THEN NonSpace(s[i]) /\ (MatchAt(s, i + 1, k) \/ MatchAt(s, i + 1, k + 1))
       ELSE s[i] = EmailPattern[k] /\ MatchAt(s, i + 1, k + 1)

RegexTest(s) == \E i \in 1..Len(s) : MatchAt(s, i, 1)

emailError(data) ==
  IF Len(data.email) = 0 THEN "Email is required."
  ELSE IF ~RegexTest(data.email) THEN "Email is invalid."
  ELSE ""

passwordError_offByOne(data) ==
  IF Len(data.password) = 0 THEN "Password is required."
  ELSE IF Len(data.password) <= 6 THEN "Password must be at least 6 characters."
  ELSE ""

passwordError(data) ==
  IF Len(data.password) = 0 THEN "Password is required."
  ELSE IF Len(data.password) < 6 THEN "Password must be at least 6 characters."
  ELSE ""

nameError(data, mode) ==
  IF ~mode /\ Len(data.name) = 0 THEN "Full name is required for signup."
  ELSE ""

validateForm(data, mode) ==
  LET msg == [f \in {"email", "password", "name"} |->
                CASE f = "email"    -> emailError(data)
                  [] f = "password" -> passwordError(data)
                  [] f = "name"     -> nameError(data, mode)]
  IN  [f \in {g \in DOMAIN msg : msg[g] # ""} |-> msg[f]]

isValid(errors) == Cardinality(DOMAIN errors) = 0

\* ------------------------------------------------------- provider calls
NoArg == << >>

Request(op, stage, email, password) ==
  [op |-> op, stage |-> stage, email |-> email, password |-> password]

Idle == [op |-> "none", pc |-> "idle", token |-> Null]

Pending == BagToSet(inflight)

Issue(req) == inflight (+) SetToBag({req})

Settle(req) == inflight (-) SetToBag({req})

CanIssue == BagCardinality(inflight) < MaxInflight

\* ------------------------------------------------------------------ Init
Init ==
  /\ authData = [name |-> N_empty, email |-> E_empty, password |-> P_empty]
  /\ formErrors = NoItems
  /\ isLogin \in BOOLEAN
  /\ idToken = Null
  /\ loginStatus = FALSE
  /\ localStorage = NoItems
  /\ route = "/"
  /\ accounts = {}
  /\ inflight = EmptyBag
  /\ running = Idle
  /\ lastLog = ""
  /\ uncaught = FALSE
  /\ toggleSeen = << >>

\* ------------------------------------------------------- error handling
\* functions whose body awaits the provider inside try { } catch { }
HasTry_submitUnguarded(fn) == fn \in {"loginWithGoogleHandler", "handleSignOut"}

HasTry(fn) == fn \in {"handleSubmit", "loginWithGoogleHandler", "handleSignOut"}

\* frames that are suspended on the provider call, innermost last
CallStack(req) ==
  CASE req.stage = "create"  -> <<"handleSubmit">>
    [] req.stage = "signIn"  -> <<"handleSubmit", "loginHandler">>
    [] req.stage = "popup"   -> <<"loginWithGoogleHandler">>
    [] req.stage = "signOut" -> <<"handleSignOut">>

RECURSIVE Catcher(_)
Catcher(stack) ==
  IF Len(stack) = 0 THEN ""
  ELSE IF HasTry(stack[Len(stack)]) THEN stack[Len(stack)]
  ELSE Catcher(SubSeq(stack, 1, Len(stack) - 1))

CatchLog(fn) ==
  CASE fn = "handleSubmit"           -> "Authentication error:"
    [] fn = "loginWithGoogleHandler" -> "Google Sign-In Error:"
    [] fn = "handleSignOut"          -> "Sign out error:"

\* --------------------------------------------------------- form events
handleChange(field, value) ==
  /\ running = Idle
  /\ field = "name" => ~isLogin          \* the name input is rendered in signup mode only
  /\ authData' = [authData EXCEPT ![field] = value]
  /\ UNCHANGED << formErrors, store, localStorage, route, accounts, inflight,
                  running, lastLog, uncaught, toggleSeen >>

toggleAuthMode_setsSignup ==
  /\ running = Idle
  /\ isLogin' = setIsLoginReducer(FALSE)
  /\ toggleSeen' = IF Len(toggleSeen) < 2 THEN Append(toggleSeen, isLogin)
                   ELSE <<toggleSeen[2], isLogin>>
  /\ UNCHANGED << authData, formErrors, idToken, loginStatus, localStorage, route,
                  accounts, inflight, running, lastLog, uncaught >>

toggleAuthMode ==
  /\ running = Idle
  /\ isLogin' = setIsLoginReducer(~isLogin)
  /\ toggleSeen' = IF Len(toggleSeen) < 2 THEN Append(toggleSeen, isLogin)
                   ELSE <<toggleSeen[2], isLogin>>
  /\ UNCHANGED << authData, formErrors, idToken, loginStatus, localStorage, route,
                  accounts, inflight, running, lastLog, uncaught >>

SubmitRequest ==
  IF isLogin
  THEN Request("login", "signIn", authData.email, authData.password)
  ELSE Request("signup", "create", authData.email, authData.password)

handleSubmit_noAbort ==
  /\ running = Idle
  /\ formErrors' = validateForm(authData, isLogin)
  /\ CanIssue
  /\ inflight' = Issue(SubmitRequest)
  /\ UNCHANGED << authData, store, localStorage, route, accounts, running,
                  lastLog, uncaught, toggleSeen >>

handleSubmit_serialized ==
  /\ running = Idle
  /\ LET errors == validateForm(authData, isLogin)
     IN  /\ formErrors' = errors
         /\ IF ~isValid(errors)
            THEN UNCHANGED inflight
            ELSE /\ CanIssue
                 /\ \A req \in Pending : req.op \notin {"login", "signup"}
                 /\ inflight' = Issue(SubmitRequest)
  /\ UNCHANGED << authData, store, localStorage, route, accounts, running,
                  lastLog, uncaught, toggleSeen >>

handleSubmit ==
  /\ running = Idle
  /\ LET errors == validateForm(authData, isLogin)
     IN  /\ formErrors' = errors
         /\ IF ~isValid(errors)
            THEN UNCHANGED inflight
            ELSE /\ CanIssue
                 /\ inflight' = Issue(SubmitRequest)
  /\ UNCHANGED << authData, store, localStorage, route, accounts, running,
                  lastLog, uncaught, toggleSeen >>

loginWithGoogleHandler ==
  /\ running = Idle
  /\ CanIssue
  /\ inflight' = Issue(Request("google", "popup", NoArg, NoArg))
  /\ UNCHANGED << authData, formErrors, store, localStorage, route, accounts,
                  running, lastLog, uncaught, toggleSeen >>

handleSignOut ==
  /\ running = Idle
  /\ CanIssue
  /\ inflight' = Issue(Request("signOut", "signOut", NoArg, NoArg))
  /\ UNCHANGED << authData, formErrors, store, localStorage, route, accounts,
                  running, lastLog, uncaught, toggleSeen >>

\* ------------------------------------------------ provider calls settle
createUserResolved(req) ==
  /\ running = Idle
  /\ req \in Pending
  /\ req.stage = "create"
  /\ accounts' = accounts \cup {req.email}
  /\ inflight' = Settle(req) (+)
                 SetToBag({Request(req.op, "signIn", req.email, req.password)})
  /\ UNCHANGED << authData, formErrors, store, localStorage, route, running,
                  lastLog, uncaught, toggleSeen >>

signInResolved(req, tok) ==
  /\ running = Idle
  /\ req \in Pending
  /\ req.stage = "signIn"
  /\ inflight' = Settle(req)
  /\ running' = [op |-> req.op, pc |-> "setItem", token |-> tok]
  /\ UNCHANGED << authData, formErrors, store, localStorage, route, accounts,
                  lastLog, uncaught, toggleSeen >>

signInWithGoogleResolved(req, tok) ==
  /\ running = Idle
  /\ req \in Pending
  /\ req.stage = "popup"
  /\ inflight' = Settle(req)
  /\ running' = [op |-> "google", pc |-> "setItem", token |-> tok]
  /\ UNCHANGED << authData, formErrors, store, localStorage, route, accounts,
                  lastLog, uncaught, toggleSeen >>

signOutUserResolved(req) ==
  /\ running = Idle
  /\ req \in Pending
  /\ req.stage = "signOut"
  /\ inflight' = Settle(req)
  /\ running' = [op |-> "signOut", pc |-> "removeItem", token |-> Null]
  /\ UNCHANGED << authData, formErrors, store, localStorage, route, accounts,
                  lastLog, uncaught, toggleSeen >>

providerRejected_clears(req) ==
  /\ running = Idle
  /\ req \in Pending
  /\ inflight' = Settle(req)
  /\ LET catcher == Catcher(CallStack(req))
     IN  IF catcher = ""
         THEN uncaught' = TRUE /\ UNCHANGED lastLog
         ELSE lastLog' = CatchLog(catcher) /\ UNCHANGED uncaught
  /\ localStorage' = IF req.stage = "signOut" THEN removeItem(localStorage, "idToken")
                     ELSE localStorage
  /\ UNCHANGED << authData, formErrors, store, route, accounts, running, toggleSeen >>

providerRejected(req) ==
  /\ running = Idle
  /\ req \in Pending
  /\ inflight' = Settle(req)
  /\ LET catcher == Catcher(CallStack(req))
     IN  IF catcher = ""
         THEN uncaught' = TRUE /\ UNCHANGED lastLog
         ELSE lastLog' = CatchLog(catcher) /\ UNCHANGED uncaught
  /\ UNCHANGED << authData, formErrors, store, localStorage, route, accounts,
                  running, toggleSeen >>

\* ----------------------------------------- continuation of loginHandler
InLogin == running.op \in {"login", "signup"}

loginHandler_setItem_wrongKey ==
  /\ InLogin /\ running.pc = "setItem"
  /\ localStorage' = setItem(localStorage, "token", running.token)
  /\ running' = [running EXCEPT !.pc = "setIdToken"]
  /\ UNCHANGED << authData, formErrors, store, route, accounts, inflight,
                  lastLog, uncaught, toggleSeen >>

loginHandler_setItem ==
  /\ InLogin /\ running.pc = "setItem"
  /\ localStorage' = setItem(localStorage, "idToken", running.token)
  /\ running' = [running EXCEPT !.pc = "setIdToken"]
  /\ UNCHANGED << authData, formErrors, store, route, accounts, inflight,
                  lastLog, uncaught, toggleSeen >>

loginHandler_setIdToken_skip ==
  /\ InLogin /\ running.pc = "setIdToken"
  /\ running' = [running EXCEPT !.pc = "setLoginStatus"]
  /\ UNCHANGED << authData, formErrors, store, localStorage, route,
                  accounts, inflight, lastLog, uncaught, toggleSeen >>

loginHandler_setIdToken ==
  /\ InLogin /\ running.pc = "setIdToken"
  /\ idToken' = setIdTokenReducer(running.token)
  /\ running' = [running EXCEPT !.pc = "setLoginStatus"]
  /\ UNCHANGED << authData, formErrors, isLogin, loginStatus, localStorage, route,
                  accounts, inflight, lastLog, uncaught, toggleSeen >>

loginHandler_setLoginStatus ==
  /\ InLogin /\ running.pc = "setLoginStatus"
  /\ loginStatus' = setLoginStatusReducer(idToken)
  /\ running' = [running EXCEPT !.pc = "navigate"]
  /\ UNCHANGED << authData, formErrors, isLogin, idToken, localStorage, route,
                  accounts, inflight, lastLog, uncaught, toggleSeen >>

loginHandler_navigate ==
  /\ InLogin /\ running.pc = "navigate"
  /\ route' = "/home"
  /\ running' = [running EXCEPT !.pc = "setIsLogin"]
  /\ UNCHANGED << authData, formErrors, store, localStorage, accounts, inflight,
                  lastLog, uncaught, toggleSeen >>

handleSubmit_setIsLogin_keepsMode ==
  /\ InLogin /\ running.pc = "setIsLogin"
  /\ isLogin' = setIsLoginReducer(isLogin)
  /\ toggleSeen' = << >>
  /\ running' = Idle
  /\ UNCHANGED << authData, formErrors, idToken, loginStatus, localStorage, route,
                  accounts, inflight, lastLog, uncaught >>

handleSubmit_setIsLogin ==
  /\ InLogin /\ running.pc = "setIsLogin"
  /\ isLogin' = setIsLoginReducer(TRUE)
  /\ toggleSeen' = << >>
  /\ running' = Idle
  /\ UNCHANGED << authData, formErrors, idToken, loginStatus, localStorage, route,
                  accounts, inflight, lastLog, uncaught >>

\* ------------------------------- continuation of loginWithGoogleHandler
google_setItem ==
  /\ running.op = "google" /\ running.pc = "setItem"
  /\ localStorage' = setItem(localStorage, "idToken", running.token)
  /\ running' = [running EXCEPT !.pc = "setIdToken"]
  /\ UNCHANGED << authData, formErrors, store, route, accounts, inflight,
                  lastLog, uncaught, toggleSeen >>

google_setIdToken ==
  /\ running.op = "google" /\ running.pc = "setIdToken"
  /\ idToken' = setIdTokenReducer(running.token)
  /\ running' = [running EXCEPT !.pc = "setLoginStatus"]
  /\ UNCHANGED << authData, formErrors, isLogin, loginStatus, localStorage, route,
                  accounts, inflight, lastLog, uncaught, toggleSeen >>

google_setLoginStatus ==
  /\ running.op = "google" /\ running.pc = "setLoginStatus"
  /\ loginStatus' = setLoginStatusReducer(idToken)
  /\ running' = Idle
  /\ UNCHANGED << authData, formErrors, isLogin, idToken, localStorage, route,
                  accounts, inflight, lastLog, uncaught, toggleSeen >>

\* ---------------------------------------- continuation of handleSignOut
signOut_removeItem_skip ==
  /\ running.op = "signOut" /\ running.pc = "removeItem"
  /\ running' = [running EXCEPT !.pc = "setIdToken"]
  /\ UNCHANGED << authData, formErrors, store, localStorage, route, accounts,
                  inflight, lastLog, uncaught, toggleSeen >>

signOut_removeItem ==
  /\ running.op = "signOut" /\ running.pc = "removeItem"
  /\ localStorage' = removeItem(localStorage, "idToken")
  /\ running' = [running EXCEPT !.pc = "setIdToken"]
  /\ UNCHANGED << authData, formErrors, store, route, accounts, inflight,
                  lastLog, uncaught, toggleSeen >>

signOut_setIdToken ==
  /\ running.op = "signOut" /\ running.pc = "setIdToken"
  /\ idToken' = setIdTokenReducer(Null)
  /\ running' = [running EXCEPT !.pc = "setLoginStatus"]
  /\ UNCHANGED << authData, formErrors, isLogin, loginStatus, localStorage, route,
                  accounts, inflight, lastLog, uncaught, toggleSeen >>

signOut_setLoginStatus ==
  /\ running.op = "signOut" /\ running.pc = "setLoginStatus"
  /\ loginStatus' = setLoginStatusReducer(idToken)
  /\ running' = Idle
  /\ UNCHANGED << authData, formErrors, isLogin, idToken, localStorage, route,
                  accounts, inflight, lastLog, uncaught, toggleSeen >>

\* ---------------------------------------------------------- specification
Next ==
  \/ \E v \in Names : handleChange("name", v)
  \/ \E v \in Emails : handleChange("email", v)
  \/ \E v \in Passwords : handleChange("password", v)
  \/ toggleAuthMode
  \/ handleSubmit
  \/ loginWithGoogleHandler
  \/ handleSignOut
  \/ \E req \in Pending : createUserResolved(req)
  \/ \E req \in Pending, tok \in Tokens : signInResolved(req, tok)
  \/ \E req \in Pending, tok \in Tokens : signInWithGoogleResolved(req, tok)
  \/ \E req \in Pending : signOutUserResolved(req)
  \/ \E req \in Pending : providerRejected(req)
  \/ loginHandler_setItem
  \/ loginHandler_setIdToken
  \/ loginHandler_setLoginStatus
  \/ loginHandler_navigate
  \/ handleSubmit_setIsLogin
  \/ google_setItem
  \/ google_setIdToken
  \/ google_setLoginStatus
  \/ signOut_removeItem
  \/ signOut_setIdToken
  \/ signOut_setLoginStatus

Spec == Init /\ [][Next]_vars

\* Exhaustive validation: every form content up to the length bounds, in both
\* modes, is submitted.
InitValidate ==
  /\ authData \in [name : AllNames, email : AllEmails, password : AllPasswords]
  /\ formErrors = NoItems
  /\ isLogin \in BOOLEAN
  /\ idToken = Null
  /\ loginStatus = FALSE
  /\ localStorage = NoItems
  /\ route = "/"
  /\ accounts = {}
  /\ inflight = EmptyBag
  /\ running = Idle
  /\ lastLog = ""
  /\ uncaught = FALSE
  /\ toggleSeen = << >>

NextValidate == handleSubmit

SpecValidate == InitValidate /\ [][NextValidate]_vars

\* ================================================================ claims
Invalid == ~isValid(validateForm(authData, isLogin))

\* the provider call req fails: it leaves the bag and no continuation starts
Fails(req) ==
  /\ req \in Pending
  /\ running = Idle
  /\ running' = Idle
  /\ inflight' = Settle(req)

\* C1: a submit of an invalid form aborts: no provider call is issued, no
\* continuation is left behind, and the persisted token, the store token,
\* the mode flag and the route are unchanged.
C1_InvalidSubmitAborts ==
  [][(handleSubmit /\ Invalid) =>
       UNCHANGED << inflight, running, localStorage, idToken, isLogin, route >>]_vars

C1_Witness ==
  /\ running = Idle
  /\ Invalid
  /\ formErrors = validateForm(authData, isLogin)
  /\ hasItem(localStorage, "idToken")
  /\ BagCardinality(inflight) = 1

\* C4: the error map stored by a submit equals the per-field reference, each
\* field judged on its own, and the submit proceeds exactly when the map is
\* empty.
RefEmailMatches(s) ==
  \E p \in 1..Len(s), q \in 1..Len(s) :
    /\ p >= 2 /\ NonSpace(s[p - 1]) /\ s[p] = "@"
    /\ q >= p + 2 /\ s[q] = "."
    /\ \A j \in (p + 1)..(q - 1) : NonSpace(s[j])
    /\ q < Len(s) /\ NonSpace(s[q + 1])

RefEmailMessage(email) ==
  IF email = << >> THEN "Email is required."
  ELSE IF ~RefEmailMatches(email) THEN "Email is invalid."
  ELSE "none"

C4_ValidateFormReference ==
  [][handleSubmit =>
       /\ IF RefEmailMessage(authData.email) = "none"
          THEN "email" \notin DOMAIN formErrors'
          ELSE /\ "email" \in DOMAIN formErrors'
               /\ formErrors'["email"] = RefEmailMessage(authData.email)
       /\ ("password" \in DOMAIN formErrors') <=> (Len(authData.password) < 6)
       /\ ("name" \in DOMAIN formErrors') <=> (~isLogin /\ authData.name = << >>)
       /\ DOMAIN formErrors' \subseteq {"email", "password", "name"}
       /\ (inflight' # inflight) <=> (DOMAIN formErrors' = {})]_vars

C4_Witness ==
  /\ DOMAIN formErrors = {"email", "password", "name"}
  /\ formErrors["email"] = "Email is invalid."
  /\ Len(authData.password) = 5
  /\ ~isLogin

\* C2: when the continuation of a successful login reaches navigate("/home"),
\* storage key "idToken" and the store token both hold the token of the
\* response and the login status has been refreshed from it; a login whose
\* sign-in call fails leaves the route alone and starts no continuation.
C2_TokenPublishedBeforeNavigate ==
  /\ []((InLogin /\ running.pc = "navigate") =>
          /\ hasItem(localStorage, "idToken")
          /\ localStorage["idToken"] = running.token
          /\ idToken = running.token
          /\ loginStatus = TRUE)
  /\ [][\A req \in Pending :
          (req.stage = "signIn" /\ Fails(req)) => route' = route]_vars
  /\ [][route' # route => (InLogin /\ running.pc = "navigate" /\ route' = "/home")]_vars

C2_Witness ==
  /\ InLogin
  /\ running.pc = "setIsLogin"
  /\ route = "/home"
  /\ running.token = "T2"
  /\ idToken = "T2"
  /\ hasItem(localStorage, "idToken")
  /\ localStorage["idToken"] = "T2"

\* C3: when the continuation of a successful sign-out finishes, storage has
\* no "idToken" and the store token is null.
C3_SignOutClearsToken ==
  [][(running.op = "signOut" /\ running' = Idle) =>
       (~hasItem(localStorage', "idToken") /\ idToken' = Null)]_vars

C3_Witness ==
  /\ running.op = "signOut"
  /\ running.pc = "setLoginStatus"
  /\ loginStatus = TRUE
  /\ ~hasItem(localStorage, "idToken")
  /\ idToken = Null
  /\ BagCardinality(inflight) > 0

\* C5: after two consecutive calls of toggleAuthMode the mode flag has the
\* value it had before the first of them.
C5_ToggleTwiceRestores ==
  Len(toggleSeen) = 2 => isLogin = toggleSeen[1]

C5_Witness ==
  /\ Len(toggleSeen) = 2
  /\ running = Idle
  /\ isLogin = toggleSeen[1]
  /\ BagCardinality(inflight) > 0

\* C6: when the continuation of a successful submit finishes, isLogin is
\* true; no other step of a submit changes isLogin (the only other writer is
\* toggleAuthMode, which leaves the requests and the continuation alone).
C6_SuccessForcesLoginMode ==
  /\ [][(InLogin /\ running' = Idle) => isLogin' = TRUE]_vars
  /\ [][isLogin' # isLogin =>
          \/ (InLogin /\ running.pc = "setIsLogin" /\ running' = Idle)
          \/ (running = Idle /\ UNCHANGED << running, inflight, formErrors >>)]_vars

C6_Witness ==
  /\ running = Idle
  /\ route = "/home"
  /\ toggleSeen = << >>
  /\ isLogin
  /\ accounts # {}

\* C7: a provider failure during a submit is caught by handleSubmit and
\* changes nothing but the console: no token, no mode change, no formErrors
\* update, no navigation, no new provider call.  A signup whose sign-in is
\* pending, and so may still fail, already has its account.
C7_SubmitFailureChangesNothing ==
  /\ [][\A req \in Pending :
          (req.op \in {"login", "signup"} /\ Fails(req)) =>
            /\ UNCHANGED << localStorage, idToken, loginStatus, isLogin,
                            formErrors, route, authData, accounts >>
            /\ lastLog' = "Authentication error:"
            /\ uncaught' = FALSE]_vars
  /\ [](\A req \in Pending :
          (req.op = "signup" /\ req.stage = "signIn") => req.email \in accounts)

C7_Witness ==
  /\ running = Idle
  /\ lastLog = "Authentication error:"
  /\ accounts # {}
  /\ idToken = Null
  /\ ~hasItem(localStorage, "idToken")
  /\ route = "/"
  /\ inflight = EmptyBag

\* C8: a provider failure during google-login or sign-out is caught by the
\* handler that made the call; the handler ends normally and the persisted
\* token and the store token are what they were.
C8_GoogleSignOutFailureCaught ==
  [][\A req \in Pending :
       (req.op \in {"google", "signOut"} /\ Fails(req)) =>
         /\ UNCHANGED << localStorage, idToken >>
         /\ lastLog' = IF req.op = "google" THEN "Google Sign-In Error:"
                       ELSE "Sign out error:"
         /\ uncaught' = FALSE]_vars

C8_Witness ==
  /\ running = Idle
  /\ lastLog = "Sign out error:"
  /\ hasItem(localStorage, "idToken")
  /\ idToken # Null
  /\ inflight = EmptyBag

\* C9: a valid submit is accepted whatever is already in flight: whenever
\* the event loop is idle and the form is valid, handleSubmit can run and
\* adds one provider call to those in flight.
C9_SubmitNotSerialized ==
  (running = Idle /\ ~Invalid /\ CanIssue) =>
    ENABLED (handleSubmit /\ BagCardinality(inflight') = BagCardinality(inflight) + 1)

C9_Witness ==
  \E req \in Pending :
    /\ req.op = "signup"
    /\ req.stage = "create"
    /\ CopiesIn(req, inflight) >= 2

\* C10: whenever control is back in the event loop, storage key "idToken"
\* and the store token agree.
TokensAgree ==
  IF idToken = Null THEN ~hasItem(localStorage, "idToken")
  ELSE hasItem(localStorage, "idToken") /\ localStorage["idToken"] = idToken

C10_StorageAndStoreAgree ==
  running = Idle => TokensAgree

C10_Witness ==
  /\ running = Idle
  /\ idToken = "T2"
  /\ hasItem(localStorage, "idToken")
  /\ localStorage["idToken"] = "T2"
  /\ lastLog = "Sign out error:"
  /\ BagCardinality(inflight) = MaxInflight

====
